---- MODULE Spec2Model ----
(***************************************************************************)
(* Model of argus_core/execution/generate_favicons.py.                     *)
(*                                                                         *)
(* generate_favicons(source_path, target_dir) is a straight-line script:   *)
(* check the source, make the target directory, resize the source once per *)
(* entry of the literal table `targets`, resize the mstile-310x150 tile,   *)
(* resize a 32x32 intermediate, try to convert it to favicon.ico, fall     *)
(* back to cp when the conversion exits non-zero, remove the intermediate. *)
(*                                                                         *)
(* The state is the part of the filesystem the function touches (does the  *)
(* source exist, does the target directory exist, what does each file name *)
(* in the target directory hold), the position of the running call, and    *)
(* history of the call: external invocations made, console lines printed.  *)
(* The source image lies outside the target directory.                     *)
(***************************************************************************)
EXTENDS Integers, Sequences, FiniteSets, TLC

\* How many times generate_favicons is called in succession.
MaxRuns == 2

VARIABLES
  srcExists,   \* os.path.exists(source_path)
  dirExists,   \* the target directory exists
  fs,          \* file name in target_dir -> what the file holds
  pc,          \* position of the current call of generate_favicons
  i,           \* index of the for loop over targets (1-based)
  run,         \* number of the current call
  calls,       \* subprocess.run invocations of the current call, in order
  stdout,      \* lines printed by the current call, in order
  written,     \* file names the current call has written to
  err,         \* the exception the current call raised, "none" if none
  fs0,         \* fs when the current call started
  dir0,        \* dirExists when the current call started
  prevEnd      \* how the previous call ended: "none", "done" or "raised"

vars == <<srcExists, dirExists, fs, pc, i, run, calls, stdout, written, err,
          fs0, dir0, prevEnd>>

\* The literal table of (filename, width, height).
targets ==
  << <<"android-chrome-144x144.png", 144, 144>>,
     <<"android-chrome-192x192.png", 192, 192>>,
     <<"android-chrome-256x256.png", 256, 256>>,
     <<"android-chrome-36x36.png", 36, 36>>,
     <<"android-chrome-384x384.png", 384, 384>>,
     <<"android-chrome-48x48.png", 48, 48>>,
     <<"android-chrome-512x512.png", 512, 512>>,
     <<"android-chrome-72x72.png", 72, 72>>,
     <<"android-chrome-96x96.png", 96, 96>>,
     <<"apple-touch-icon-1024x1024.png", 1024, 1024>>,
     <<"apple-touch-icon-114x114.png", 114, 114>>,
     <<"apple-touch-icon-120x120.png", 120, 120>>,
     <<"apple-touch-icon-144x144.png", 144, 144>>,
     <<"apple-touch-icon-152x152.png", 152, 152>>,
     <<"apple-touch-icon-167x167.png", 167, 167>>,
     <<"apple-touch-icon-180x180.png", 180, 180>>,
     <<"apple-touch-icon-57x57.png", 57, 57>>,
     <<"apple-touch-icon-60x60.png", 60, 60>>,
     <<"apple-touch-icon-72x72.png", 72, 72>>,
     <<"apple-touch-icon-76x76.png", 76, 76>>,
     <<"apple-touch-icon-precomposed.png", 180, 180>>,
     <<"apple-touch-icon.png", 180, 180>>,
     <<"favicon-16x16.png", 16, 16>>,
     <<"favicon-32x32.png", 32, 32>>,
     <<"favicon-48x48.png", 48, 48>>,
     <<"mstile-144x144.png", 144, 144>>,
     <<"mstile-150x150.png", 150, 150>>,
     <<"mstile-310x310.png", 310, 310>>,
     <<"mstile-70x70.png", 70, 70>>,
     <<"yandex-browser-50x50.png", 50, 50>> >>

TableNames == {targets[k][1] : k \in 1..Len(targets)}

TileName == "mstile-310x150.png"
temp_ico_png == "favicon_temp.png"
IcoName == "favicon.ico"

\* Every file name the function forms with os.path.join(target_dir, ...).
FileNames == TableNames \cup {TileName, temp_ico_png, IcoName}

\* What a file name holds.  A PNG written by `sips -z a1 a2` records the two
\* size arguments as the strings passed on the command line and the input
\* it was resampled from; an ICO written by `sips -s format ico` records the
\* size of the image it was converted from; a failed tool may leave a
\* partial file behind.
Absent == [kind |-> "absent", a1 |-> "", a2 |-> "", from |-> ""]
Partial == [kind |-> "partial", a1 |-> "", a2 |-> "", from |-> ""]
Png(a1, a2, from) == [kind |-> "png", a1 |-> a1, a2 |-> a2, from |-> from]
Ico(c) == [kind |-> "ico", a1 |-> c.a1, a2 |-> c.a2, from |-> temp_ico_png]

Names(f) == {n \in FileNames : f[n].kind # "absent"}

\* Completion of an external invocation: exit status 0; non-zero exit
\* status without or with a partial output file; the process could not be
\* started at all (OSError from subprocess.run).
Outcomes == {"ok", "nonzero", "nonzero_partial", "oserror"}
NonZero == {"nonzero", "nonzero_partial"}

\* One subprocess.run call: the tool, its operation, the two size arguments
\* of -z (empty otherwise), the input path, the output path, how it ended.
Call(tool, op, a1, a2, src, out, result) ==
  [tool |-> tool, op |-> op, a1 |-> a1, a2 |-> a2, src |-> src, out |-> out,
   result |-> result]


\* ---- the library and tool steps, as operators ----

\* os.path.exists(source_path) is false: the guard of the early return.
SourceMissingNever(exists) == FALSE
SourceMissing(exists) == ~exists

\* os.makedirs(target_dir, exist_ok=True) raises FileExistsError only
\* without exist_ok; with it an existing directory is accepted.
MakedirsNoExistOk(exists) == exists
MakedirsRaises(exists) == FALSE

\* The check= argument of the resize calls and of the cp call.
ResizeCheckOff == FALSE
ResizeCheck == TRUE
CpCheck == TRUE

\* subprocess.run raises: OSError when the process cannot be started,
\* CalledProcessError on a non-zero exit status when check is set.
Raises(result, check) ==
  \/ result = "oserror"
  \/ check /\ result \in NonZero

ErrorOf(result) == IF result = "oserror" THEN "OSError" ELSE "CalledProcessError"

\* `except subprocess.CalledProcessError` around the conversion catches the
\* non-zero exit status and nothing else.
ConvertHandledAny(result) == result # "ok"
ConvertHandled(result) == result \in NonZero

\* The target directory after `sips -z a1 a2 source_path --out out` ended
\* with `result`.  Without --out sips rewrites its input in place and leaves
\* `out` alone.
SipsResizeNoOut(f, a1, a2, out, result) == f
SipsResize(f, a1, a2, out, result) ==
  CASE result = "ok" -> [f EXCEPT ![out] = Png(a1, a2, "source")]
    [] result = "nonzero_partial" -> [f EXCEPT ![out] = Partial]
    [] OTHER -> f

\* The target directory after `sips -s format ico src --out out`.
SipsConvert(f, src, out, result) ==
  CASE result = "ok" -> [f EXCEPT ![out] = Ico(f[src])]
    [] result = "nonzero_partial" -> [f EXCEPT ![out] = Partial]
    [] OTHER -> f

\* The target directory after `cp src out`: the bytes of src, verbatim.
CpSkipped(f, src, out, result) == f
CpCopy(f, src, out, result) ==
  CASE result = "ok" -> [f EXCEPT ![out] = f[src]]
    [] result = "nonzero_partial" -> [f EXCEPT ![out] = Partial]
    [] OTHER -> f

\* os.remove(path).
OsRemoveSkipped(f, path) == f
OsRemove(f, path) == [f EXCEPT ![path] = Absent]

\* The file names a tool run that ended with `result` wrote to.
Wrote(out, result) == IF result \in {"ok", "nonzero_partial"} THEN {out} ELSE {}

\* ---- the state machine ----

EmptyDir == [n \in FileNames |-> Absent]

Init ==
  /\ srcExists \in BOOLEAN
  /\ dirExists \in BOOLEAN
  /\ fs = EmptyDir
  /\ pc = "check"
  /\ i = 1
  /\ run = 1
  /\ calls = <<>>
  /\ stdout = <<>>
  /\ written = {}
  /\ err = "none"
  /\ fs0 = fs
  /\ dir0 = dirExists
  /\ prevEnd = "none"

\* if not os.path.exists(source_path): print(...); return
CheckSource ==
  /\ pc = "check"
  /\ IF SourceMissing(srcExists)
       THEN /\ stdout' = Append(stdout, <<"Error: Source file not found", "source">>)
            /\ pc' = "done"
       ELSE /\ pc' = "makedirs"
            /\ UNCHANGED stdout
  /\ UNCHANGED <<srcExists, dirExists, fs, i, run, calls, written, err, fs0,
                 dir0, prevEnd>>

\* os.makedirs(target_dir, exist_ok=True)
EnsureDirectory ==
  /\ pc = "makedirs"
  /\ IF MakedirsRaises(dirExists)
       THEN /\ pc' = "raised"
            /\ err' = "FileExistsError"
            /\ UNCHANGED <<dirExists, i>>
       ELSE /\ dirExists' = TRUE
            /\ i' = 1
            /\ pc' = "loop"
            /\ UNCHANGED err
  /\ UNCHANGED <<srcExists, fs, run, calls, stdout, written, fs0, dir0, prevEnd>>

\* One iteration of `for filename, width, height in targets`; the loop is
\* left after the last entry.
ResizeEntry ==
  /\ pc = "loop"
  /\ i \in 1..Len(targets)
  /\ \E result \in Outcomes :
       LET filename == targets[i][1]
           width == targets[i][2]
           height == targets[i][3]
           a1 == ToString(height)
           a2 == ToString(width)
       IN /\ stdout' = Append(stdout, <<"Generating", filename>>)
          /\ calls' = Append(calls, Call("sips", "-z", a1, a2, "source", filename, result))
          /\ fs' = SipsResize(fs, a1, a2, filename, result)
          /\ written' = written \cup Wrote(filename, result)
          /\ IF Raises(result, ResizeCheck)
               THEN /\ pc' = "raised"
                    /\ err' = ErrorOf(result)
                    /\ UNCHANGED i
               ELSE /\ i' = i + 1
                    /\ pc' = IF i = Len(targets) THEN "tile" ELSE "loop"
                    /\ UNCHANGED err
  /\ UNCHANGED <<srcExists, dirExists, run, fs0, dir0, prevEnd>>

\* The special case: sips -z 150 310 source --out mstile-310x150.png
ResizeTile ==
  /\ pc = "tile"
  /\ \E result \in Outcomes :
       /\ stdout' = Append(stdout, <<"Generating", TileName>>)
       /\ calls' = Append(calls, Call("sips", "-z", "150", "310", "source", TileName, result))
       /\ fs' = SipsResize(fs, "150", "310", TileName, result)
       /\ written' = written \cup Wrote(TileName, result)
       /\ IF Raises(result, ResizeCheck)
            THEN pc' = "raised" /\ err' = ErrorOf(result)
            ELSE pc' = "temp" /\ UNCHANGED err
  /\ UNCHANGED <<srcExists, dirExists, i, run, fs0, dir0, prevEnd>>

\* sips -z 32 32 source --out favicon_temp.png
ResizeTemp ==
  /\ pc = "temp"
  /\ \E result \in Outcomes :
       /\ stdout' = Append(stdout, <<"Generating", IcoName>>)
       /\ calls' = Append(calls, Call("sips", "-z", "32", "32", "source", temp_ico_png, result))
       /\ fs' = SipsResize(fs, "32", "32", temp_ico_png, result)
       /\ written' = written \cup Wrote(temp_ico_png, result)
       /\ IF Raises(result, ResizeCheck)
            THEN pc' = "raised" /\ err' = ErrorOf(result)
            ELSE pc' = "convert" /\ UNCHANGED err
  /\ UNCHANGED <<srcExists, dirExists, i, run, fs0, dir0, prevEnd>>

\* try: sips -s format ico favicon_temp.png --out favicon.ico
\* except CalledProcessError: print the fallback notice
TryConvert ==
  /\ pc = "convert"
  /\ \E result \in Outcomes :
       /\ calls' = Append(calls, Call("sips", "format ico", "", "", temp_ico_png, IcoName, result))
       /\ fs' = SipsConvert(fs, temp_ico_png, IcoName, result)
       /\ written' = written \cup Wrote(IcoName, result)
       /\ IF ~Raises(result, TRUE)
            THEN pc' = "cleanup" /\ UNCHANGED <<err, stdout>>
            ELSE IF ConvertHandled(result)
              THEN /\ stdout' = Append(stdout, <<"sips ico export failed, falling back", IcoName>>)
                   /\ pc' = "fallback"
                   /\ UNCHANGED err
              ELSE /\ pc' = "raised"
                   /\ err' = ErrorOf(result)
                   /\ UNCHANGED stdout
  /\ UNCHANGED <<srcExists, dirExists, i, run, fs0, dir0, prevEnd>>

\* The handler's body: cp favicon_temp.png favicon.ico, check=True
FallbackCopy ==
  /\ pc = "fallback"
  /\ \E result \in Outcomes :
       /\ calls' = Append(calls, Call("cp", "copy", "", "", temp_ico_png, IcoName, result))
       /\ fs' = CpCopy(fs, temp_ico_png, IcoName, result)
       /\ written' = written \cup Wrote(IcoName, result)
       /\ IF Raises(result, CpCheck)
            THEN pc' = "raised" /\ err' = ErrorOf(result)
            ELSE pc' = "cleanup" /\ UNCHANGED err
  /\ UNCHANGED <<srcExists, dirExists, i, run, stdout, fs0, dir0, prevEnd>>

\* os.remove(temp_ico_png), the last statement
CleanupTemp ==
  /\ pc = "cleanup"
  /\ fs' = OsRemove(fs, temp_ico_png)
  /\ pc' = "done"
  /\ UNCHANGED <<srcExists, dirExists, i, run, calls, stdout, written, err,
                 fs0, dir0, prevEnd>>

\* generate_favicons is called again with the same arguments.
CallAgain ==
  /\ pc \in {"done", "raised"}
  /\ run < MaxRuns
  /\ run' = run + 1
  /\ prevEnd' = pc
  /\ pc' = "check"
  /\ i' = 1
  /\ calls' = <<>>
  /\ stdout' = <<>>
  /\ written' = {}
  /\ err' = "none"
  /\ fs0' = fs
  /\ dir0' = dirExists
  /\ UNCHANGED <<srcExists, dirExists, fs>>

Next ==
  \/ CheckSource
  \/ EnsureDirectory
  \/ ResizeEntry
  \/ ResizeTile
  \/ ResizeTemp
  \/ TryConvert
  \/ FallbackCopy
  \/ CleanupTemp
  \/ CallAgain

Spec == Init /\ [][Next]_vars


\* ---- vocabulary of the properties ----

Ended == pc \in {"done", "raised"}
AllOk == \A k \in 1..Len(calls) : calls[k].result = "ok"
IsResize(c) == c.tool = "sips" /\ c.op = "-z"
IsConvert(c) == c.tool = "sips" /\ c.op = "format ico"
IsCopy(c) == c.tool = "cp"
ConvertEnded(results) ==
  \E k \in 1..Len(calls) : IsConvert(calls[k]) /\ calls[k].result \in results
CopyEnded(results) ==
  \E k \in 1..Len(calls) : IsCopy(calls[k]) /\ calls[k].result \in results
TempCreated ==
  \E k \in 1..Len(calls) : calls[k].out = temp_ico_png /\ calls[k].result = "ok"
Exists(name) == fs[name].kind # "absent"
TempImage == Png("32", "32", "source")

\* C1 (as stated): after a run with an existing source and every external
\* invocation succeeding, the target directory holds exactly 31 files: the
\* 29 PNGs of the table, mstile-310x150.png and favicon.ico.
C1_Original ==
  (pc = "done" /\ srcExists /\ AllOk) =>
     /\ Names(fs) = TableNames \cup {TileName, IcoName}
     /\ Names(fs) \subseteq written
     /\ Cardinality(TableNames) = 29
     /\ Cardinality(Names(fs)) = 31

\* C1 (amended): after a run with an existing source and every external
\* invocation succeeding, the files of the target directory are exactly the
\* 30 PNGs of the table, mstile-310x150.png and favicon.ico, 32 files, all
\* written by the run, and favicon_temp.png is not among them.
C1_ThirtyTwoFiles ==
  (pc = "done" /\ srcExists /\ AllOk) =>
     /\ Names(fs) = TableNames \cup {TileName, IcoName}
     /\ Names(fs) \subseteq written
     /\ temp_ico_png \notin Names(fs)
     /\ Cardinality(TableNames) = 30
     /\ Cardinality(Names(fs)) = 32

C1_Witness ==
  /\ pc = "done" /\ srcExists /\ AllOk /\ run = 1
  /\ Len(calls) = Len(targets) + 3
  /\ Cardinality(Names(fs)) = 32

\* C2: after a successful run every entry (filename, width, height) of the
\* table has its file in the target directory, written by a successful
\* `sips -z height width` on the source image.
C2_EveryEntryResized ==
  (pc = "done" /\ srcExists) =>
     \A k \in 1..Len(targets) :
        /\ fs[targets[k][1]] =
             Png(ToString(targets[k][3]), ToString(targets[k][2]), "source")
        /\ calls[k] = Call("sips", "-z", ToString(targets[k][3]),
                           ToString(targets[k][2]), "source", targets[k][1], "ok")

C2_Witness ==
  /\ pc = "done" /\ srcExists
  /\ \A k \in 1..Len(targets) : Exists(targets[k][1])
  /\ fs["apple-touch-icon-1024x1024.png"].a1 = "1024"

\* C3: with a missing source the call changes nothing: no file and no
\* directory is created, no external tool is invoked, nothing is raised, and
\* the call returns after printing the error message.
C3_MissingSourceNoEffect ==
  ~srcExists =>
     /\ fs = fs0 /\ Names(fs) = {}
     /\ dirExists = dir0
     /\ calls = <<>>
     /\ written = {}
     /\ err = "none"
     /\ pc \in {"check", "done"}
     /\ pc = "done" => stdout = << <<"Error: Source file not found", "source">> >>

C3_Witness ==
  /\ ~srcExists /\ pc = "done" /\ ~dirExists
  /\ Len(stdout) = 1 /\ calls = <<>>

C5_NoTempAfterReturn ==
  pc = "done" => ~Exists(temp_ico_png)

C5_Witness ==
  /\ pc = "done" /\ CopyEnded({"ok"})
  /\ temp_ico_png \in written /\ ~Exists(temp_ico_png)

\* C6: a failing resize (table entry, tile or 32x32 intermediate) is the
\* last thing the run does: the error is raised, no later invocation is
\* made, favicon.ico and every later output stay unwritten, and the files of
\* the earlier steps are in place.
C6_ResizeFailureAborts ==
  \A k \in 1..Len(calls) :
     (IsResize(calls[k]) /\ calls[k].result # "ok") =>
        /\ pc = "raised"
        /\ err = ErrorOf(calls[k].result)
        /\ k = Len(calls)
        /\ IcoName \notin written
        /\ written \subseteq {calls[j].out : j \in 1..k}
        /\ \A j \in 1..(k - 1) :
              fs[calls[j].out] = Png(calls[j].a1, calls[j].a2, "source")

C6_Witness ==
  /\ pc = "raised" /\ Len(calls) = Len(targets) + 1
  /\ calls[Len(calls)].out = TileName /\ calls[Len(calls)].result = "nonzero"
  /\ Exists("yandex-browser-50x50.png") /\ ~Exists(IcoName)

C8_SecondRunIdempotent ==
  /\ err # "FileExistsError"
  /\ (prevEnd = "done" /\ srcExists /\ Ended /\ AllOk) =>
        /\ pc = "done"
        /\ dir0
        /\ Names(fs) = Names(fs0)
        /\ Names(fs) \subseteq written

C8_Witness ==
  /\ run = 2 /\ prevEnd = "done" /\ srcExists /\ pc = "done" /\ AllOk
  /\ Names(fs0) = TableNames \cup {TileName, IcoName}
  /\ Names(fs) = Names(fs0)

\* C9 (as stated): after a successful run mstile-310x150.png exists and was
\* requested square, 150 by 150, by a resize whose two size arguments are in
\* the opposite order to those of the table entries.
C9_Claim ==
  (pc = "done" /\ srcExists) =>
     /\ Exists(TileName)
     /\ fs[TileName].a1 = "150"
     /\ fs[TileName].a2 = "150"

\* C10 (as stated): however a run ends once favicon_temp.png has been
\* created, favicon_temp.png is gone.
C10_Claim ==
  (Ended /\ TempCreated) => ~Exists(temp_ico_png)

====
